---------------------------- MODULE Spec2Model ----------------------------
(* GeoNarrative Audio Weaver: the App component's playback controller       *)
(* (playAudio / pauseAudio / stopAudio / onended), its generation pipeline  *)
(* (handleGenerate and the three service calls it awaits) and the rendered  *)
(* controls that invoke them.                                               *)
(*                                                                          *)
(* Time is counted in sample frames of the 24 kHz audio context, so a       *)
(* buffer of n frames has duration n.                                       *)
EXTENDS Integers, Sequences, FiniteSets, TLC

----------------------------------------------------------------------------
(* Bounds of the model *)

MaxTime == 3          \* the engine clock stops advancing here
MaxSources == 2       \* buffer-source nodes alive (ended event not yet delivered) at once
MaxCycles == 2        \* handleGenerate invocations that get past the coords check
MaxPayloadLen == 4    \* bytes of a decoded base64 audio payload

----------------------------------------------------------------------------
(* Values *)

NullBuf == [cyc |-> 0, dur |-> 0]
NoText == [cyc |-> 0, kind |-> "null"]
FreeSource == [dur |-> 0, endAt |-> 0, state |-> "free"]

SourceIds == 1..MaxSources
PayloadLens == 0..MaxPayloadLen
\* frame counts a container decode of a payload can yield
ContainerFrames == 1..(MaxPayloadLen \div 2)
\* responses of the text service: whether response.text is present, and the
\* groundingChunks (a web citation, an unrecognised chunk, a maps citation
\* without a title)
Responses ==
    {[hasText |-> TRUE, chunks |-> <<"web">>],
     [hasText |-> TRUE, chunks |-> <<"other", "mapsUntitled">>],
     [hasText |-> FALSE, chunks |-> << >>]}

MsgTextFailed == "Failed to weave the narrative thread. The connection to the neural net was interrupted."
MsgSpeechFailed == "Voice synthesis module failed."
MsgGeoMissing == "Geolocation module not found."
MsgGeoDenied == "Access to location denied. Please enable GPS."

VARIABLES
    coords,            \* state.coords: TRUE when a fix is held, FALSE for null
    geo,               \* the geolocation request: "absent", "pending", "settled"
    isGenerating,      \* state.isGenerating
    storyText,         \* state.storyText (NoText for null)
    groundingSources,  \* state.groundingSources
    error,             \* state.error ("null" for null)
    statusMessage,     \* state.statusMessage
    isPlaying,         \* the isPlaying state
    audioContextRef,   \* TRUE once the AudioContext exists
    audioSourceRef,    \* id of the source node held, 0 for null
    audioBufferRef,    \* the decoded buffer held, NullBuf for null
    startTimeRef,      \* startTimeRef.current
    pausedAtRef,       \* pausedAtRef.current
    currentTime,       \* ctx.currentTime
    sources,           \* the engine's buffer-source nodes, by id
    cycles,            \* the handleGenerate invocations, in order of start
    events,            \* what the handler that ran last did, in program order
    acct,              \* history of the play()/pause() calls on the loaded buffer
    pcmIn,             \* the payload handed to decodeAndPlay's manual PCM decode
    pcmOut             \* what that decode returned or threw ("none" before it ran)

vars == <<coords, geo, isGenerating, storyText, groundingSources, error,
          statusMessage, isPlaying, audioContextRef, audioSourceRef,
          audioBufferRef, startTimeRef, pausedAtRef, currentTime, sources,
          cycles, events, acct, pcmIn, pcmOut>>

pcmVars == <<pcmIn, pcmOut>>

appVars == <<coords, isGenerating, storyText, groundingSources, error, statusMessage>>

----------------------------------------------------------------------------
(* The audio engine *)

\* A source node holds the duration of its buffer (which the closure of its
\* onended handler reads) and, while it sounds, endAt, the time at which it
\* runs out of buffer: started at time t from offset o it plays until
\* t + (dur - o). Its state is "started" while it sounds, "ended" once it ran
\* out of buffer, "halted" once stop() cut it short; an ended or halted source
\* has its ended event queued, and is "free" again once that is dispatched.

\* a source that is sounding
Active(s) == s.state = "started"

ActiveSources == {i \in SourceIds : Active(sources[i])}

\* a source whose ended event is queued and not yet dispatched
EndedPending(s) == s.state \in {"halted", "ended"}

\* AudioBufferSourceNode.stop(): halts a sounding source; nothing to do on one
\* that already ran out
StopSource(srcs, id) ==
    IF srcs[id].state = "started"
    THEN [srcs EXCEPT ![id] = [dur |-> @.dur, endAt |-> 0, state |-> "halted"]]
    ELSE srcs

\* the clock reaches now: the sources that run out of buffer end
Advance(srcs, now) ==
    [i \in SourceIds |->
        IF srcs[i].state = "started" /\ now >= srcs[i].endAt
        THEN [dur |-> srcs[i].dur, endAt |-> 0, state |-> "ended"]
        ELSE srcs[i]]

FreeIds(srcs) == {i \in SourceIds : srcs[i].state = "free"}

NewSourceId(srcs) == CHOOSE i \in FreeIds(srcs) : \A j \in FreeIds(srcs) : i <= j

----------------------------------------------------------------------------
(* The playback controller, as functions of the audio state *)

Audio ==
    [isPlaying |-> isPlaying, ctx |-> audioContextRef, src |-> audioSourceRef,
     buf |-> audioBufferRef, startTime |-> startTimeRef, pausedAt |-> pausedAtRef,
     sources |-> sources, events |-> << >>]

SetAudio(a) ==
    /\ isPlaying' = a.isPlaying
    /\ audioContextRef' = a.ctx
    /\ audioSourceRef' = a.src
    /\ audioBufferRef' = a.buf
    /\ startTimeRef' = a.startTime
    /\ pausedAtRef' = a.pausedAt
    /\ sources' = a.sources
    /\ events' = a.events

initAudioContext(a) == [a EXCEPT !.ctx = TRUE]

\* playAudio that forgets the offset when it records the start reference
playAudioNoOffset(a) ==
    LET a1 == initAudioContext(a) IN
    IF ~a1.ctx \/ a1.buf = NullBuf THEN a1
    ELSE
        LET offset == a1.pausedAt % a1.buf.dur
            id == NewSourceId(a1.sources)
        IN  [a1 EXCEPT
                !.sources = [@ EXCEPT ![id] =
                    [dur |-> a1.buf.dur,
                     endAt |-> currentTime + (a1.buf.dur - offset),
                     state |-> "started"]],
                !.startTime = currentTime,
                !.src = id,
                !.isPlaying = TRUE,
                !.events = Append(@, <<"start", id>>)]

playAudio(a) ==
    LET a1 == initAudioContext(a) IN
    IF ~a1.ctx \/ a1.buf = NullBuf THEN a1
    ELSE
        LET offset == a1.pausedAt % a1.buf.dur
            id == NewSourceId(a1.sources)
        IN  [a1 EXCEPT
                !.sources = [@ EXCEPT ![id] =
                    [dur |-> a1.buf.dur,
                     endAt |-> currentTime + (a1.buf.dur - offset),
                     state |-> "started"]],
                !.startTime = currentTime - offset,
                !.src = id,
                !.isPlaying = TRUE,
                !.events = Append(@, <<"start", id>>)]

pauseAudio(a) ==
    IF a.src # 0 /\ a.ctx
    THEN [a EXCEPT
            !.sources = StopSource(@, a.src),
            !.pausedAt = currentTime - a.startTime,
            !.src = 0,
            !.isPlaying = FALSE,
            !.events = Append(@, <<"stop", a.src>>)]
    ELSE a

\* stopAudio that resets the offset only when it holds a source
stopAudioGuardedReset(a) ==
    IF a.src # 0
    THEN [a EXCEPT !.sources = StopSource(@, a.src),
                   !.src = 0,
                   !.pausedAt = 0,
                   !.isPlaying = FALSE,
                   !.events = Append(@, <<"stop", a.src>>)]
    ELSE a

stopAudio(a) ==
    LET a1 == IF a.src # 0
              THEN [a EXCEPT !.sources = StopSource(@, a.src),
                             !.src = 0,
                             !.events = Append(@, <<"stop", a.src>>)]
              ELSE a
    IN  [a1 EXCEPT !.pausedAt = 0, !.isPlaying = FALSE]

\* onended that takes the end for genuine only once the clock is past it
onendedStrictlyPast(a, id) ==
    LET a1 == IF currentTime - a.startTime > a.sources[id].dur
              THEN [a EXCEPT !.isPlaying = FALSE, !.pausedAt = 0]
              ELSE a
    IN  [a1 EXCEPT !.sources = [@ EXCEPT ![id] = FreeSource]]

\* source.onended of source id, whose closure holds the buffer it was made for
onended(a, id) ==
    LET a1 == IF currentTime - a.startTime >= a.sources[id].dur
              THEN [a EXCEPT !.isPlaying = FALSE, !.pausedAt = 0]
              ELSE a
    IN  [a1 EXCEPT !.sources = [@ EXCEPT ![id] = FreeSource]]

\* playAudio needs a node from the engine
CanStart(a) == a.buf = NullBuf \/ FreeIds(a.sources) # {}


----------------------------------------------------------------------------
(* History of the play()/pause() calls made on the loaded buffer:           *)
(*   last    the kind of the last call ("none" after a load was discarded)  *)
(*   playAt  engine time of the last play()                                 *)
(*   before  pausedAtRef as the last play() found it                        *)
(*   zero    the last pause() came at the engine time of the play() before  *)
(*   alt     the calls since the buffer was loaded alternate play, pause    *)
(*   sum     total length of the play()-to-pause() intervals while alt      *)
(* The history is kept in the playback specification only (acct = AcctOff   *)
(* elsewhere).                                                              *)

AcctOff ==
    [last |-> "off", playAt |-> 0, before |-> 0, zero |-> FALSE, alt |-> FALSE, sum |-> 0]
AcctNone ==
    [last |-> "none", playAt |-> 0, before |-> 0, zero |-> FALSE, alt |-> FALSE, sum |-> 0]

\* the autoplay of a freshly decoded buffer is its first play()
AcctLoaded(a) ==
    IF acct = AcctOff THEN acct
    ELSE [last |-> "play", playAt |-> currentTime, before |-> a.pausedAt,
          zero |-> FALSE, alt |-> TRUE, sum |-> 0]

AcctPlay(a) ==
    IF acct = AcctOff \/ a.buf = NullBuf THEN acct
    ELSE [last |-> "play", playAt |-> currentTime, before |-> a.pausedAt,
          zero |-> FALSE,
          alt |-> acct.alt /\ acct.last = "pause",
          sum |-> IF acct.alt /\ acct.last = "pause" THEN acct.sum ELSE 0]

AcctPause(a) ==
    IF acct = AcctOff \/ a.buf = NullBuf THEN acct
    ELSE [last |-> "pause", playAt |-> 0,
          before |-> IF acct.last = "play" THEN acct.before ELSE 0,
          zero |-> acct.last = "play" /\ acct.playAt = currentTime,
          alt |-> acct.alt /\ acct.last = "play",
          sum |-> IF acct.alt /\ acct.last = "play"
                  THEN acct.sum + (currentTime - acct.playAt) ELSE 0]

AcctStop(a) ==
    IF acct = AcctOff \/ a.buf = NullBuf THEN acct
    ELSE [last |-> "stop", playAt |-> 0, before |-> 0, zero |-> FALSE,
          alt |-> FALSE, sum |-> 0]

----------------------------------------------------------------------------
(* The generation pipeline *)

InFlightPcs == {"awaitText", "awaitSpeech", "awaitDecode"}

NewCycle == [pc |-> "awaitText", calls |-> <<"text">>, payloadLen |-> 0]

\* handleGenerate that discards the buffer without stopping the playback
generateStartNoStop(a) ==
    LET a2 == [a EXCEPT !.buf = NullBuf, !.events = Append(@, <<"discard">>)]
    IN  [a2 EXCEPT !.events = Append(@, <<"call", "text">>)]

\* handleGenerate that stops the playback and keeps the buffer
generateStartKeepsBuffer(a) ==
    LET a1 == stopAudio(a)
    IN  [a1 EXCEPT !.events = Append(@, <<"call", "text">>)]

\* handleGenerate from its coords check to the first await: what it does to
\* the audio state, in program order
generateStart(a) ==
    LET a1 == stopAudio(a)
        a2 == [a1 EXCEPT !.buf = NullBuf, !.events = Append(@, <<"discard">>)]
    IN  [a2 EXCEPT !.events = Append(@, <<"call", "text">>)]

\* generateStoryText without the canned narrative for a response with no text
storyTextOfNoFallback(k, hasText) ==
    [cyc |-> k, kind |-> IF hasText THEN "story" ELSE "null"]

\* generateStoryText's result from a response
storyTextOf(k, hasText) == [cyc |-> k, kind |-> IF hasText THEN "story" ELSE "fallback"]

sourceOf(k, chunk) ==
    [cyc |-> k, title |-> IF chunk = "mapsUntitled" THEN "Map Location" ELSE "title"]

RECURSIVE groundingSourcesOf(_, _)
groundingSourcesOf(k, chunks) ==
    IF chunks = << >> THEN << >>
    ELSE LET rest == groundingSourcesOf(k, Tail(chunks))
         IN  IF Head(chunks) \in {"web", "mapsUntitled"}
             THEN <<sourceOf(k, Head(chunks))>> \o rest
             ELSE rest

\* a catch block that leaves isGenerating set
FailStillGenerating(k, msg) ==
    /\ error' = msg
    /\ statusMessage' = "Process Aborted"
    /\ UNCHANGED <<coords, isGenerating, storyText, groundingSources>>

\* a catch block that also clears the narrative
FailClearsNarrative(k, msg) ==
    /\ isGenerating' = FALSE
    /\ error' = msg
    /\ statusMessage' = "Process Aborted"
    /\ storyText' = NoText
    /\ groundingSources' = << >>
    /\ UNCHANGED coords

\* the catch block of handleGenerate
Fail(k, msg) ==
    /\ isGenerating' = FALSE
    /\ error' = msg
    /\ statusMessage' = "Process Aborted"
    /\ UNCHANGED <<coords, storyText, groundingSources>>

\* the fallback PCM decode of a payload of len bytes: it throws when the
\* Int16Array view cannot be made over an odd byte length and when createBuffer
\* is asked for no frames, else it returns a buffer of len / 2 frames
pcmDecode(len) ==
    IF len % 2 # 0
    THEN [ok |-> FALSE, frames |-> 0,
          err |-> "RangeError: byte length of Int16Array should be a multiple of 2"]
    ELSE IF len \div 2 = 0
    THEN [ok |-> FALSE, frames |-> 0,
          err |-> "NotSupportedError: createBuffer: the number of frames must be positive"]
    ELSE [ok |-> TRUE, frames |-> len \div 2, err |-> "null"]

\* the divisor that normalises a 16-bit sample (line 483)
PcmScale == 32768

\* element i of the Int16Array view over the bytes (line 477): two bytes, the
\* low one first, read as a two's complement number
int16At(bytes, i) ==
    LET u == bytes[2 * i - 1] + 256 * bytes[2 * i]
    IN  IF u >= 32768 THEN u - 65536 ELSE u

NoPayload == << >>
NotDecoded == [ok |-> FALSE, frames |-> << >>, err |-> "none"]

\* the catch branch of decodeAndPlay on the bytes of a payload: what it
\* throws, or the channel data of the buffer it returns, every frame the
\* quotient num / den (a quotient of a 16-bit number by 2^15 is stored in a
\* 32-bit float without rounding)
pcmFallback(bytes) ==
    LET r == pcmDecode(Len(bytes)) IN
    IF ~r.ok
    THEN [ok |-> FALSE, frames |-> << >>, err |-> r.err]
    ELSE [ok |-> TRUE,
          frames |-> [i \in 1..r.frames |->
                        [num |-> int16At(bytes, i), den |-> PcmScale]],
          err |-> "null"]

\* lines 166-168 without the autoplay
readyNoAutoplay(a, k, frames) ==
    [a EXCEPT !.buf = [cyc |-> k, dur |-> frames]]

\* lines 166-168: the buffer is stored, the cycle is Ready, playback starts
ready(a, k, frames) ==
    playAudio([a EXCEPT !.buf = [cyc |-> k, dur |-> frames]])

----------------------------------------------------------------------------
(* Initial state: the component is mounted and both effects have run *)

InitApp ==
    /\ coords = FALSE
    /\ geo \in {"absent", "pending"}
    /\ error = IF geo = "absent" THEN MsgGeoMissing ELSE "null"
    /\ statusMessage = IF geo = "absent" THEN "System Error" ELSE "Acquiring Satellites..."
    /\ isGenerating = FALSE
    /\ storyText = NoText
    /\ groundingSources = << >>
    /\ isPlaying = FALSE
    /\ audioContextRef = FALSE
    /\ audioSourceRef = 0
    /\ audioBufferRef = NullBuf
    /\ startTimeRef = 0
    /\ pausedAtRef = 0
    /\ currentTime = 0
    /\ sources = [i \in SourceIds |-> FreeSource]
    /\ cycles = << >>
    /\ events = << >>
    /\ acct = AcctOff

Init ==
    /\ InitApp
    /\ pcmIn = NoPayload
    /\ pcmOut = NotDecoded

----------------------------------------------------------------------------
(* The handlers *)

HandlePlay ==
    /\ CanStart(Audio)
    /\ SetAudio(playAudio(Audio))
    /\ acct' = AcctPlay(Audio)
    /\ UNCHANGED <<appVars, geo, currentTime, cycles, pcmVars>>

HandlePause ==
    /\ SetAudio(pauseAudio(Audio))
    /\ acct' = AcctPause(Audio)
    /\ UNCHANGED <<appVars, geo, currentTime, cycles, pcmVars>>

HandleStop ==
    /\ SetAudio(stopAudio(Audio))
    /\ acct' = AcctStop(Audio)
    /\ UNCHANGED <<appVars, geo, currentTime, cycles, pcmVars>>

\* handleGenerate without its coords check
HandleGenerateNoCoordsCheck ==
    /\ Len(cycles) < MaxCycles
    /\ SetAudio(generateStart(Audio))
    /\ isGenerating' = TRUE
    /\ error' = "null"
    /\ storyText' = NoText
    /\ groundingSources' = << >>
    /\ statusMessage' = "Scanning Environment..."
    /\ cycles' = Append(cycles, NewCycle)
    /\ acct' = IF acct = AcctOff THEN acct ELSE AcctNone
    /\ UNCHANGED <<coords, geo, currentTime, pcmVars>>

HandleGenerate ==
    IF ~coords
    THEN /\ events' = << <<"return">> >>
         /\ UNCHANGED <<appVars, geo, isPlaying, audioContextRef, audioSourceRef,
                        audioBufferRef, startTimeRef, pausedAtRef, currentTime,
                        sources, cycles, acct, pcmVars>>
    ELSE /\ Len(cycles) < MaxCycles
         /\ SetAudio(generateStart(Audio))
         /\ isGenerating' = TRUE
         /\ error' = "null"
         /\ storyText' = NoText
         /\ groundingSources' = << >>
         /\ statusMessage' = "Scanning Environment..."
         /\ cycles' = Append(cycles, NewCycle)
         /\ acct' = IF acct = AcctOff THEN acct ELSE AcctNone
         /\ UNCHANGED <<coords, geo, currentTime, pcmVars>>

----------------------------------------------------------------------------
(* The environment: the clock, the engine's ended events, the geolocation   *)
(* callbacks and the resolutions of the awaited service calls               *)

Tick ==
    /\ audioContextRef
    /\ currentTime < MaxTime
    /\ currentTime' = currentTime + 1
    /\ sources' = Advance(sources, currentTime + 1)
    /\ events' = << >>
    /\ UNCHANGED <<appVars, geo, isPlaying, audioContextRef, audioSourceRef,
                   audioBufferRef, startTimeRef, pausedAtRef, cycles, acct, pcmVars>>

OnEnded(id) ==
    /\ EndedPending(sources[id])
    /\ SetAudio(onended(Audio, id))
    /\ UNCHANGED <<appVars, geo, currentTime, cycles, acct, pcmVars>>

GeoSuccess ==
    /\ geo = "pending"
    /\ geo' = "settled"
    /\ coords' = TRUE
    /\ statusMessage' = "Ready to Weave"
    /\ error' = "null"
    /\ events' = << >>
    /\ UNCHANGED <<isGenerating, storyText, groundingSources, isPlaying,
                   audioContextRef, audioSourceRef, audioBufferRef, startTimeRef,
                   pausedAtRef, currentTime, sources, cycles, acct, pcmVars>>

GeoError ==
    /\ geo = "pending"
    /\ geo' = "settled"
    /\ error' = MsgGeoDenied
    /\ statusMessage' = "Location Signal Lost"
    /\ events' = << >>
    /\ UNCHANGED <<coords, isGenerating, storyText, groundingSources, isPlaying,
                   audioContextRef, audioSourceRef, audioBufferRef, startTimeRef,
                   pausedAtRef, currentTime, sources, cycles, acct, pcmVars>>

audioVars == <<isPlaying, audioContextRef, audioSourceRef, audioBufferRef,
               startTimeRef, pausedAtRef, sources>>

\* the text service answered cycle k
TextResolve(k, resp) ==
    /\ cycles[k].pc = "awaitText"
    /\ storyText' = storyTextOf(k, resp.hasText)
    /\ groundingSources' = groundingSourcesOf(k, resp.chunks)
    /\ statusMessage' = "Synthesizing Voice..."
    /\ cycles' = [cycles EXCEPT ![k].pc = "awaitSpeech", ![k].calls = Append(@, "speech")]
    /\ events' = << <<"call", "speech">> >>
    /\ UNCHANGED <<coords, geo, isGenerating, error, audioVars, currentTime, acct, pcmVars>>

\* the text service call of cycle k threw
TextReject(k) ==
    /\ cycles[k].pc = "awaitText"
    /\ Fail(k, MsgTextFailed)
    /\ cycles' = [cycles EXCEPT ![k].pc = "failed"]
    /\ events' = << >>
    /\ UNCHANGED <<geo, audioVars, currentTime, acct, pcmVars>>

\* the speech service answered cycle k with a payload: no inline data
\* ("none"), data atob rejects ("invalid"), or base64 of len bytes ("bytes")
SpeechResolve(k, payload) ==
    /\ cycles[k].pc = "awaitSpeech"
    /\ IF payload.kind = "none"
       THEN /\ Fail(k, MsgSpeechFailed)
            /\ cycles' = [cycles EXCEPT ![k].pc = "failed"]
            /\ events' = << >>
            /\ UNCHANGED audioVars
       ELSE /\ audioContextRef' = TRUE
            /\ UNCHANGED <<isPlaying, audioSourceRef, audioBufferRef, startTimeRef,
                           pausedAtRef, sources>>
            /\ events' = << <<"call", "decode">> >>
            /\ IF payload.kind = "invalid"
               THEN /\ Fail(k, "atob: the string to be decoded is not correctly encoded")
                    /\ cycles' = [cycles EXCEPT ![k].pc = "failed",
                                                ![k].calls = Append(@, "decode")]
               ELSE /\ cycles' = [cycles EXCEPT ![k].pc = "awaitDecode",
                                                ![k].calls = Append(@, "decode"),
                                                ![k].payloadLen = payload.len]
                    /\ UNCHANGED appVars
    /\ UNCHANGED <<geo, currentTime, acct, pcmVars>>

\* a speech stage that calls the service again when the call threw
SpeechRejectRetries(k) ==
    /\ cycles[k].pc = "awaitSpeech"
    /\ cycles' = [cycles EXCEPT ![k].calls = Append(@, "speech")]
    /\ events' = << <<"call", "speech">> >>
    /\ UNCHANGED <<appVars, geo, audioVars, currentTime, acct, pcmVars>>

\* the speech service call of cycle k threw
SpeechReject(k) ==
    /\ cycles[k].pc = "awaitSpeech"
    /\ Fail(k, MsgSpeechFailed)
    /\ cycles' = [cycles EXCEPT ![k].pc = "failed"]
    /\ events' = << >>
    /\ UNCHANGED <<geo, audioVars, currentTime, acct, pcmVars>>

\* lines 166-168 for cycle k and a buffer of frames frames
Ready(k, frames) ==
    /\ CanStart([Audio EXCEPT !.buf = [cyc |-> k, dur |-> frames]])
    /\ SetAudio(ready(Audio, k, frames))
    /\ isGenerating' = FALSE
    /\ statusMessage' = "Narrative Ready"
    /\ cycles' = [cycles EXCEPT ![k].pc = "ready", ![k].payloadLen = 0]
    /\ acct' = AcctLoaded(Audio)
    /\ UNCHANGED <<coords, storyText, groundingSources, error, geo, currentTime, pcmVars>>

\* decodeAudioData accepted the payload of cycle k
DecodeResolve(k, frames) ==
    /\ cycles[k].pc = "awaitDecode"
    /\ cycles[k].payloadLen >= 1
    /\ Ready(k, frames)

\* decodeAudioData rejected the payload of cycle k: the manual PCM decode
DecodeFallback(k) ==
    /\ cycles[k].pc = "awaitDecode"
    /\ LET r == pcmDecode(cycles[k].payloadLen) IN
       IF ~r.ok
       THEN /\ Fail(k, r.err)
            /\ cycles' = [cycles EXCEPT ![k].pc = "failed", ![k].payloadLen = 0]
            /\ events' = << >>
            /\ UNCHANGED <<geo, audioVars, currentTime, acct, pcmVars>>
       ELSE Ready(k, r.frames)

----------------------------------------------------------------------------
(* The rendered controls (lines 261-308) *)

ShowsGenerateButton == audioBufferRef = NullBuf \/ isGenerating

ClickGenerate ==
    /\ ShowsGenerateButton
    /\ ~(isGenerating \/ ~coords)
    /\ HandleGenerate

ClickRegenerate ==
    /\ ~ShowsGenerateButton
    /\ HandleGenerate

ClickPlay ==
    /\ ~ShowsGenerateButton
    /\ ~isPlaying
    /\ HandlePlay

ClickPause ==
    /\ ~ShowsGenerateButton
    /\ isPlaying
    /\ HandlePause

----------------------------------------------------------------------------
(* Direct invocations of the operations, in any state *)

Generate == HandleGenerate
Play == HandlePlay
Pause == HandlePause
Stop == HandleStop

----------------------------------------------------------------------------

Payloads ==
    {[kind |-> "none", len |-> 0], [kind |-> "invalid", len |-> 0]}
        \cup {[kind |-> "bytes", len |-> n] : n \in PayloadLens}

\* the application: the handlers run when their control is clicked
Next ==
    \/ ClickGenerate
    \/ ClickRegenerate
    \/ ClickPlay
    \/ ClickPause
    \/ Tick
    \/ \E id \in SourceIds : OnEnded(id)
    \/ GeoSuccess
    \/ GeoError
    \/ \E k \in DOMAIN cycles, resp \in Responses : TextResolve(k, resp)
    \/ \E k \in DOMAIN cycles : TextReject(k)
    \/ \E k \in DOMAIN cycles, payload \in Payloads : SpeechResolve(k, payload)
    \/ \E k \in DOMAIN cycles : SpeechReject(k)
    \/ \E k \in DOMAIN cycles, frames \in ContainerFrames : DecodeResolve(k, frames)
    \/ \E k \in DOMAIN cycles : DecodeFallback(k)

Spec == Init /\ [][Next]_vars

\* the operations as a contract: called in any order, in any state
NextApi ==
    \/ Generate
    \/ Play
    \/ Pause
    \/ Stop
    \/ Tick
    \/ \E id \in SourceIds : OnEnded(id)
    \/ GeoSuccess
    \/ GeoError
    \/ \E k \in DOMAIN cycles, resp \in Responses : TextResolve(k, resp)
    \/ \E k \in DOMAIN cycles : TextReject(k)
    \/ \E k \in DOMAIN cycles, payload \in Payloads : SpeechResolve(k, payload)
    \/ \E k \in DOMAIN cycles : SpeechReject(k)
    \/ \E k \in DOMAIN cycles, frames \in ContainerFrames : DecodeResolve(k, frames)
    \/ \E k \in DOMAIN cycles : DecodeFallback(k)

SpecApi == Init /\ [][NextApi]_vars

\* an awaited call of a stage settles, one way or the other
TextSettles ==
    \E k \in DOMAIN cycles :
        \/ \E resp \in Responses : TextResolve(k, resp)
        \/ TextReject(k)

SpeechSettles ==
    \E k \in DOMAIN cycles :
        \/ \E payload \in Payloads : SpeechResolve(k, payload)
        \/ SpeechReject(k)

DecodeSettles ==
    \E k \in DOMAIN cycles :
        \/ \E frames \in ContainerFrames : DecodeResolve(k, frames)
        \/ DecodeFallback(k)

\* a queued ended event is dispatched
EndedDispatched == \E id \in SourceIds : OnEnded(id)

\* the application used through its generate and regenerate buttons alone
NextPipeline ==
    \/ ClickGenerate
    \/ ClickRegenerate
    \/ Tick
    \/ \E id \in SourceIds : OnEnded(id)
    \/ GeoSuccess
    \/ GeoError
    \/ \E k \in DOMAIN cycles, resp \in Responses : TextResolve(k, resp)
    \/ \E k \in DOMAIN cycles : TextReject(k)
    \/ \E k \in DOMAIN cycles, payload \in Payloads : SpeechResolve(k, payload)
    \/ \E k \in DOMAIN cycles : SpeechReject(k)
    \/ \E k \in DOMAIN cycles, frames \in ContainerFrames : DecodeResolve(k, frames)
    \/ \E k \in DOMAIN cycles : DecodeFallback(k)

\* that application with remote calls and decodes that settle, and an event
\* loop that dispatches every queued ended event
SpecFair ==
    /\ Init
    /\ [][NextPipeline]_vars
    /\ WF_vars(TextSettles)
    /\ WF_vars(SpeechSettles)
    /\ WF_vars(DecodeSettles)
    /\ WF_vars(EndedDispatched)

\* the playback controller alone, from the moment a first cycle has loaded a
\* buffer of frames frames and started it: the state Spec is in after
\* GeoSuccess, ClickGenerate, TextResolve, SpeechResolve and DecodeFallback
\* with no tick of the clock, with the call history switched on
InitLoaded ==
    \E frames \in ContainerFrames :
        LET a0 == [isPlaying |-> FALSE, ctx |-> TRUE, src |-> 0, buf |-> NullBuf,
                   startTime |-> 0, pausedAt |-> 0,
                   sources |-> [i \in SourceIds |-> FreeSource], events |-> << >>]
        IN  /\ currentTime = 0
            /\ acct = [last |-> "play", playAt |-> 0, before |-> 0, zero |-> FALSE,
                       alt |-> TRUE, sum |-> 0]
            /\ isPlaying = ready(a0, 1, frames).isPlaying
            /\ audioContextRef = ready(a0, 1, frames).ctx
            /\ audioSourceRef = ready(a0, 1, frames).src
            /\ audioBufferRef = ready(a0, 1, frames).buf
            /\ startTimeRef = ready(a0, 1, frames).startTime
            /\ pausedAtRef = ready(a0, 1, frames).pausedAt
            /\ sources = ready(a0, 1, frames).sources
            /\ events = ready(a0, 1, frames).events
            /\ coords = TRUE
            /\ geo = "settled"
            /\ isGenerating = FALSE
            /\ storyText = storyTextOf(1, TRUE)
            /\ groundingSources = groundingSourcesOf(1, <<"web">>)
            /\ error = "null"
            /\ statusMessage = "Narrative Ready"
            /\ cycles = <<[pc |-> "ready", calls |-> <<"text", "speech", "decode">>,
                           payloadLen |-> 0]>>
            /\ pcmIn = NoPayload
            /\ pcmOut = NotDecoded

NextPlayback ==
    \/ Play
    \/ Pause
    \/ Stop
    \/ Tick
    \/ \E id \in SourceIds : OnEnded(id)

SpecPlayback == InitLoaded /\ [][NextPlayback]_vars

\* play() called early enough for the output it starts to run out before the
\* clock of the model stops
PlayInTime ==
    /\ audioBufferRef # NullBuf
         => currentTime + (audioBufferRef.dur - (pausedAtRef % audioBufferRef.dur)) <= MaxTime
    /\ Play

NextPlaybackFair ==
    \/ PlayInTime
    \/ Pause
    \/ Stop
    \/ Tick
    \/ \E id \in SourceIds : OnEnded(id)

\* the playback controller with an audio clock that keeps advancing and an
\* event loop that dispatches every queued ended event
SpecPlaybackFair ==
    /\ InitLoaded
    /\ [][NextPlaybackFair]_vars
    /\ WF_vars(Tick)
    /\ \A id \in SourceIds : WF_vars(OnEnded(id))

\* the manual PCM decode alone, on every payload of at most MaxPayloadLen
\* bytes drawn from ByteValues
ByteValues == {0, 1, 127, 128, 255}

PcmPayloads == UNION {[1..n -> ByteValues] : n \in PayloadLens}

InitPcm ==
    /\ InitApp
    /\ pcmIn \in PcmPayloads
    /\ pcmOut = NotDecoded

DecodePcm ==
    /\ pcmOut = NotDecoded
    /\ pcmOut' = pcmFallback(pcmIn)
    /\ UNCHANGED <<appVars, geo, audioVars, currentTime, cycles, events, acct, pcmIn>>

NextPcm == DecodePcm

SpecPcm == InitPcm /\ [][NextPcm]_vars

\* the application, and handleGenerate invoked while no fix is held (which
\* the disabled generate button keeps the user from doing)
GenerateWithoutFix ==
    /\ ~coords
    /\ Generate

NextNoFix ==
    \/ GenerateWithoutFix
    \/ Next

SpecNoFix == Init /\ [][NextNoFix]_vars

----------------------------------------------------------------------------
(* Properties *)

TypeOK ==
    /\ coords \in BOOLEAN
    /\ isGenerating \in BOOLEAN
    /\ isPlaying \in BOOLEAN
    /\ audioSourceRef \in 0..MaxSources
    /\ currentTime \in 0..MaxTime
    /\ pausedAtRef \in 0..MaxTime
    /\ Len(cycles) <= MaxCycles

Dur == audioBufferRef.dur

InFlight == {k \in DOMAIN cycles : cycles[k].pc \in InFlightPcs}

\* C1: at most one playback output is sounding at any time.
C1_AtMostOneActiveOutput == Cardinality(ActiveSources) <= 1

\* C2: after a pause() that ends an alternating sequence of play()/pause()
\* calls on the loaded buffer, pausedAtRef equals the sum of the lengths of
\* the playing intervals, modulo the buffer's duration.
C2_TimeAccounting ==
    [][(acct.last = "play" /\ acct'.last = "pause" /\ acct'.alt)
         => pausedAtRef' % Dur = acct'.sum % Dur]_vars

\* C3: play() then pause() with no engine time elapsed between them, from a
\* pausedAtRef in [0, duration), leaves pausedAtRef as play() found it.
C3_ZeroElapsedPause ==
    [][(acct.last = "play" /\ acct'.last = "pause" /\ acct.playAt = currentTime
          /\ acct.before \in 0..(Dur - 1))
         => pausedAtRef' = acct.before]_vars

C3_Witness ==
    /\ acct.last = "pause"
    /\ acct.zero
    /\ acct.before > 0
    /\ acct.before < Dur
    /\ pausedAtRef = acct.before

\* C4: stop(), from any state, ends with pausedAtRef = 0, isPlaying false and
\* no handle, and the output the handle referred to is no longer sounding.
C4_StopResets ==
    [][Stop => /\ pausedAtRef' = 0
               /\ ~isPlaying'
               /\ audioSourceRef' = 0
               /\ (audioSourceRef # 0 => ~Active(sources'[audioSourceRef]))]_vars

\* stop() has just halted a sounding output, some time into the buffer
C4_Witness ==
    /\ acct.last = "stop"
    /\ Len(events) = 1
    /\ events[1][1] = "stop"
    /\ sources[events[1][2]].state = "halted"
    /\ currentTime > 0
    /\ pausedAtRef = 0
    /\ ~isPlaying

\* C5: whenever a buffer is loaded and isPlaying is false, pausedAtRef lies
\* in [0, duration).
C5_PausedOffsetInRange ==
    (audioBufferRef # NullBuf /\ ~isPlaying) => pausedAtRef \in 0..(Dur - 1)

\* C6: a response that resolves for a cycle after a newer cycle was started
\* changes neither the narrative, nor the loaded buffer, nor isGenerating, nor
\* the playback state.
C6_StaleResponseIgnored ==
    [][\A k \in DOMAIN cycles :
          (k < Len(cycles) /\ cycles'[k] # cycles[k])
            => UNCHANGED <<storyText, groundingSources, audioBufferRef, isGenerating,
                           isPlaying, audioSourceRef, pausedAtRef, startTimeRef>>]_vars

\* C7: at most one generation cycle is unresolved at any time.
C7_AtMostOneInFlight == Cardinality(InFlight) <= 1

\* C8: when generation starts while audio is playing, the handler halts the
\* output, then discards the buffer, then issues the text call, and nothing
\* else; playback is stopped and no buffer is loaded afterwards.
C8_StopBeforeCall ==
    [][(Len(cycles') > Len(cycles) /\ isPlaying /\ audioSourceRef # 0)
         => /\ events' = << <<"stop", audioSourceRef>>, <<"discard">>, <<"call", "text">> >>
            /\ ~Active(sources'[audioSourceRef])
            /\ ~isPlaying'
            /\ pausedAtRef' = 0
            /\ audioSourceRef' = 0
            /\ audioBufferRef' = NullBuf]_vars

\* a generation was started over a sounding output
C8_Witness ==
    /\ isGenerating
    /\ Len(events) = 3
    /\ events[1][1] = "stop"
    /\ sources[events[1][2]].state = "halted"
    /\ cycles[Len(cycles)].pc = "awaitText"

StageOrder == <<"text", "speech", "decode">>

IsPrefix(s, t) == Len(s) <= Len(t) /\ \A i \in 1..Len(s) : s[i] = t[i]

\* C9: a cycle goes through text generation, speech synthesis and decode in
\* that order, each called once and only after the stage before it resolved,
\* and the step that makes it Ready leaves its buffer loaded, isGenerating
\* false and isPlaying true with the new output sounding.
C9_StagesInOrderThenAutoplay ==
    [][\A k \in DOMAIN cycles' :
          /\ IsPrefix(cycles'[k].calls, StageOrder)
          /\ cycles'[k].calls =
                CASE cycles'[k].pc = "awaitText" -> <<"text">>
                  [] cycles'[k].pc = "awaitSpeech" -> <<"text", "speech">>
                  [] cycles'[k].pc \in {"awaitDecode", "ready"} -> StageOrder
                  [] OTHER -> cycles'[k].calls
          /\ IF k \notin DOMAIN cycles
             THEN cycles'[k].pc = "awaitText"
             ELSE /\ \/ cycles'[k].pc = cycles[k].pc
                     \/ cycles[k].pc = "awaitText" /\ cycles'[k].pc \in {"awaitSpeech", "failed"}
                     \/ cycles[k].pc = "awaitSpeech" /\ cycles'[k].pc \in {"awaitDecode", "failed"}
                     \/ cycles[k].pc = "awaitDecode" /\ cycles'[k].pc \in {"ready", "failed"}
                  /\ (cycles[k].pc # "ready" /\ cycles'[k].pc = "ready")
                       => /\ audioBufferRef'.cyc = k
                          /\ audioBufferRef'.dur >= 1
                          /\ ~isGenerating'
                          /\ isPlaying'
                          /\ audioSourceRef' # 0
                          /\ Active(sources'[audioSourceRef'])]_vars

\* a cycle has just become Ready and its buffer is playing
C9_Witness ==
    /\ cycles # << >>
    /\ cycles[Len(cycles)].pc = "ready"
    /\ audioBufferRef.cyc = Len(cycles)
    /\ statusMessage = "Narrative Ready"
    /\ events = << <<"start", audioSourceRef>> >>
    /\ isPlaying
    /\ ~isGenerating

\* the generate button is rendered and enabled
GenerateEnabled == ShowsGenerateButton /\ ~(isGenerating \/ ~coords)

\* C10: when the text call of a cycle fails, the cycle is failed with the
\* text-generation error message, only the text stage was ever called for it,
\* storyText is null, isGenerating is false and the generate button is
\* enabled; a failed cycle stays as it is.
C10_TextFailure ==
    [][\A k \in DOMAIN cycles :
          /\ (cycles[k].pc = "awaitText" /\ cycles'[k].pc = "failed")
               => /\ error' = MsgTextFailed
                  /\ cycles'[k].calls = <<"text">>
                  /\ storyText' = NoText
                  /\ ~isGenerating'
                  /\ GenerateEnabled'
          /\ cycles[k].pc = "failed" => cycles'[k] = cycles[k]]_vars

C10_Witness ==
    /\ cycles # << >>
    /\ cycles[Len(cycles)].pc = "failed"
    /\ cycles[Len(cycles)].calls = <<"text">>
    /\ error = MsgTextFailed
    /\ storyText = NoText
    /\ ~isGenerating

\* a response of the text service that carries no narrative text
Refusals == {resp \in Responses : ~resp.hasText}

\* C11 (as stated): when the text service answers a cycle without narrative
\* text, the cycle ends failed with the text-generation error and the speech
\* service is never called for it.
C11_RefusalFailsTextStage ==
    [][\A k \in DOMAIN cycles, resp \in Refusals :
          TextResolve(k, resp)
            => /\ cycles'[k].pc = "failed"
               /\ error' = MsgTextFailed
               /\ cycles'[k].calls = <<"text">>]_vars

\* C11 (amended): when the text service answers a cycle without narrative
\* text, stage 1 succeeds with the canned narrative as storyText, no error is
\* set, and the speech service is called for the cycle; a cycle fails in its
\* text stage only when the text call throws.
C11_RefusalNarratesFallback ==
    [][\A k \in DOMAIN cycles :
          /\ \A resp \in Refusals :
                TextResolve(k, resp)
                  => /\ storyText' = [cyc |-> k, kind |-> "fallback"]
                     /\ cycles'[k].pc = "awaitSpeech"
                     /\ cycles'[k].calls = <<"text", "speech">>
                     /\ events' = << <<"call", "speech">> >>
                     /\ error' = error
                     /\ isGenerating' = isGenerating
          /\ (cycles[k].pc = "awaitText" /\ cycles'[k].pc = "failed")
               => TextReject(k)]_vars

\* the canned narrative is on display and the speech call is out
C11_Witness ==
    /\ storyText.kind = "fallback"
    /\ cycles[storyText.cyc].pc = "awaitSpeech"
    /\ events = << <<"call", "speech">> >>
    /\ error = "null"
    /\ isGenerating

\* C12: while a cycle awaits speech synthesis or the decode, no step changes
\* storyText or groundingSources; and when speech synthesis or the decode
\* fails, the cycle is failed, isGenerating is false, an error is set, and
\* storyText and groundingSources are those the text stage of that cycle set.
C12_NarrativeSurvivesLaterFailure ==
    [][\A k \in DOMAIN cycles :
          cycles[k].pc \in {"awaitSpeech", "awaitDecode"}
            => /\ UNCHANGED <<storyText, groundingSources>>
               /\ storyText.cyc = k
               /\ storyText.kind \in {"story", "fallback"}
               /\ \A i \in DOMAIN groundingSources : groundingSources[i].cyc = k
               /\ cycles'[k].pc = "failed"
                    => /\ ~isGenerating'
                       /\ error' # "null"
                       /\ statusMessage' = "Process Aborted"]_vars

\* a cycle failed after its text stage, with its narrative and its sources
\* still on display
C12_Witness ==
    /\ cycles # << >>
    /\ cycles[Len(cycles)].pc = "failed"
    /\ Len(cycles[Len(cycles)].calls) >= 2
    /\ storyText.cyc = Len(cycles)
    /\ groundingSources # << >>
    /\ groundingSources[1].cyc = Len(cycles)
    /\ error # "null"
    /\ ~isGenerating

\* C13: the manual PCM decode of a payload of any length L returns a buffer
\* of floor(L / 2) frames and does not throw.
C13_FallbackNeverRaises ==
    pcmOut # NotDecoded
      => /\ pcmOut.ok
         /\ Len(pcmOut.frames) = Len(pcmIn) \div 2

\* 16-bit samples, and their encoding as 16-bit little-endian signed PCM
SampleValues == {-32768, -32767, -1, 0, 1, 127, 128, 255, 256, 32767}

SampleSeqs == UNION {[1..n -> SampleValues] : n \in 0..(MaxPayloadLen \div 2)}

RECURSIVE EncodeLE(_)
EncodeLE(vs) ==
    IF vs = << >> THEN << >>
    ELSE LET u == IF Head(vs) < 0 THEN Head(vs) + 65536 ELSE Head(vs)
         IN  <<u % 256, u \div 256>> \o EncodeLE(Tail(vs))

RoundTrips(vs) ==
    /\ pcmOut.ok
    /\ Len(pcmOut.frames) = Len(vs)
    /\ \A i \in 1..Len(vs) :
          /\ pcmOut.frames[i] = [num |-> vs[i], den |-> 32768]
          /\ -pcmOut.frames[i].den <= pcmOut.frames[i].num
          /\ pcmOut.frames[i].num < pcmOut.frames[i].den

\* C14: the manual PCM decode of the encoding of N samples returns N frames,
\* frame i being sample i over 32768, for every N including 0.
C14_PcmRoundTrip ==
    \A vs \in SampleSeqs :
        (pcmOut # NotDecoded /\ pcmIn = EncodeLE(vs)) => RoundTrips(vs)

\* the same for every sequence of at least one sample
PcmRoundTripNonEmpty ==
    \A vs \in SampleSeqs \ {<< >>} :
        (pcmOut # NotDecoded /\ pcmIn = EncodeLE(vs)) => RoundTrips(vs)

\* C15: while no coordinates are held, handleGenerate starts no cycle, issues
\* no remote call and leaves isGenerating, storyText, groundingSources, error,
\* the buffer and the playback state as they are; no cycle exists before a
\* fix is held, and coords becomes non-null only in the success callback of
\* the geolocation request.
C15_NoFixNoCycle ==
    [][/\ (~coords /\ Generate)
            => /\ cycles' = cycles
               /\ \A i \in DOMAIN events' : events'[i][1] # "call"
               /\ UNCHANGED <<coords, isGenerating, storyText, groundingSources,
                              error, statusMessage, audioBufferRef, isPlaying,
                              audioSourceRef, pausedAtRef, startTimeRef, sources>>
       /\ ~coords' => (cycles' = << >> /\ ~isGenerating')
       /\ (~coords /\ coords') => (GeoSuccess /\ geo = "pending")]_vars

\* handleGenerate has just returned at its coords check, the fix denied
C15_Witness ==
    /\ ~coords
    /\ geo = "settled"
    /\ error = MsgGeoDenied
    /\ events = << <<"return">> >>
    /\ cycles = << >>
    /\ ~isGenerating

\* C16: the ended event of an output that pause() or stop() halted, whenever
\* it is dispatched, leaves pausedAtRef as it is, and leaves isPlaying true
\* when another output is held and sounding.
C16_HaltedCallbackIgnored ==
    [][\A id \in SourceIds :
          (sources[id].state = "halted" /\ OnEnded(id))
            => /\ pausedAtRef' = pausedAtRef
               /\ (isPlaying /\ audioSourceRef \notin {0, id}
                     /\ Active(sources[audioSourceRef])) => isPlaying']_vars

\* C17: once play() has started an output, the controller eventually has
\* isPlaying false and pausedAtRef = 0, unless pause() or stop() is called
\* first; and a play() that follows an end of track starts at offset 0.
C17_NaturalEndResets ==
    /\ (isPlaying /\ acct.last = "play")
          ~> \/ ~isPlaying /\ pausedAtRef = 0
             \/ acct.last \in {"pause", "stop"}
    /\ [][(Play /\ ~isPlaying /\ acct.last = "play")
            => /\ startTimeRef' = currentTime
               /\ isPlaying'
               /\ Active(sources'[audioSourceRef'])
               /\ sources'[audioSourceRef'].endAt = currentTime + Dur]_vars

\* a track was played to its end some way into the run, and its ended event
\* has been dispatched
C17_Witness ==
    /\ acct.last = "play"
    /\ acct.before > 0
    /\ ~isPlaying
    /\ pausedAtRef = 0
    /\ currentTime >= startTimeRef + Dur
    /\ \A id \in SourceIds : sources[id].state = "free"

Terminal(k) == k \in DOMAIN cycles /\ cycles[k].pc \in {"ready", "failed"}

\* C18: eventually no started cycle is unresolved: each is ready or failed;
\* a cycle that is ready or failed stays as it is; the step that ends a cycle
\* leaves isGenerating false, and isGenerating is true only while a cycle is
\* unresolved; and no stage is called a second time.
C18_EveryCycleTerminates ==
    /\ (InFlight # {}) ~> (\A k \in DOMAIN cycles : Terminal(k))
    /\ [][/\ isGenerating' => InFlight' # {}
          /\ \A k \in DOMAIN cycles :
                /\ Terminal(k) => cycles'[k] = cycles[k]
                /\ (~Terminal(k) /\ Terminal(k)') => ~isGenerating'
                /\ IsPrefix(cycles[k].calls, cycles'[k].calls)
                /\ IsPrefix(cycles'[k].calls, StageOrder)]_vars

\* a first cycle ended failed, a second one ready
C18_Witness ==
    /\ Len(cycles) = 2
    /\ cycles[1].pc = "failed"
    /\ cycles[2].pc = "ready"
    /\ ~isGenerating

\* C19: pause() called while isPlaying is false leaves pausedAtRef, isPlaying
\* and the handle as they are; called while isPlaying is true it halts the
\* held output, sets pausedAtRef to currentTime - startTimeRef, clears the
\* handle and sets isPlaying false.
C19_PauseOnlyFromPlaying ==
    [][Pause
         => IF isPlaying
            THEN /\ audioSourceRef # 0
                 /\ ~Active(sources'[audioSourceRef])
                 /\ pausedAtRef' = currentTime - startTimeRef
                 /\ audioSourceRef' = 0
                 /\ ~isPlaying'
            ELSE UNCHANGED <<pausedAtRef, isPlaying, audioSourceRef>>]_vars

\* C20: while isGenerating is true no buffer is loaded, isPlaying is false
\* and pausedAtRef is 0; and once the latest cycle has failed no buffer is
\* loaded and play() would start nothing.
C20_NoAudioWhileGenerating ==
    /\ isGenerating
         => /\ audioBufferRef = NullBuf
            /\ ~isPlaying
            /\ pausedAtRef = 0
    /\ (cycles # << >> /\ cycles[Len(cycles)].pc = "failed")
         => /\ audioBufferRef = NullBuf
            /\ playAudio(Audio) = initAudioContext(Audio)

\* a track was loaded and played for a while, and the cycle started over it
\* has failed
C20_Witness ==
    /\ Len(cycles) = 2
    /\ cycles[1].pc = "ready"
    /\ cycles[2].pc = "failed"
    /\ currentTime > 0
    /\ audioBufferRef = NullBuf
    /\ ~isPlaying
    /\ pausedAtRef = 0

\* C21: in every reachable state the handle is held exactly when isPlaying is
\* true.
C21_HandleIffPlaying == (audioSourceRef # 0) <=> isPlaying

============================================================================
